---- MODULE Spec2Model ----
(***************************************************************************)
(* Model of the two batch image generators generate.py and generate2.py:   *)
(* slugify, the file name of a record, request_image, write_gallery and    *)
(* main with its batch loop (generate2.py: with the skip of existing       *)
(* files).  Strings are sequences of one-character strings, bytes are      *)
(* sequences of numbers in 0..255.                                         *)
(***************************************************************************)
EXTENDS Integers, Sequences, FiniteSets, TLC

\* ------------------------------------------------------------------ bounds

\* Longest prompt list read from the prompt file.
MaxPrompts == 2
\* Longest free tail of a title given to slugify.
MaxTail == 3
\* How far below a script's slug limit the padded titles start.
MaxBack == 2

\* ----------------------------------------------------------------- strings

Min(a, b) == IF a < b THEN a ELSE b

\* s[:n] of Python for n >= 0.
Take(s, n) == SubSeq(s, 1, Min(n, Len(s)))

\* n copies of the character c.
Rep(c, n) == [k \in 1..n |-> c]

\* All sequences over S of length at most n.
SeqsUpTo(S, n) == UNION {[1..k -> S] : k \in 0..n}

UpperLetters == <<"A","B","C","D","E","F","G","H","I","J","K","L","M",
                  "N","O","P","Q","R","S","T","U","V","W","X","Y","Z">>
LowerLetters == <<"a","b","c","d","e","f","g","h","i","j","k","l","m",
                  "n","o","p","q","r","s","t","u","v","w","x","y","z">>
DigitChars == <<"0","1","2","3","4","5","6","7","8","9">>

Range(s) == {s[k] : k \in DOMAIN s}

\* The characters str.strip() removes (those of them the model uses).
Whitespace == {" ", "\t", "\n"}

\* The lower-case letter of each upper-case letter.
LowerOf ==
  [c \in Range(UpperLetters) |->
     LowerLetters[CHOOSE k \in DOMAIN UpperLetters : UpperLetters[k] = c]]

\* str.lower(), one character.
LowerChar(c) == IF c \in DOMAIN LowerOf THEN LowerOf[c] ELSE c

Lower(s) == [k \in DOMAIN s |-> LowerChar(s[k])]

\* The class [a-z0-9] of the regular expression.
AlnumChars == Range(LowerLetters) \cup Range(DigitChars)
IsAlnum(c) == c \in AlnumChars

RECURSIVE LStrip(_, _)
LStrip(s, chars) ==
  IF s # <<>> /\ Head(s) \in chars THEN LStrip(Tail(s), chars) ELSE s

RECURSIVE RStrip(_, _)
RStrip(s, chars) ==
  IF s # <<>> /\ s[Len(s)] \in chars
  THEN RStrip(SubSeq(s, 1, Len(s) - 1), chars)
  ELSE s

\* str.strip(chars)
Strip(s, chars) == RStrip(LStrip(s, chars), chars)

\* re.sub(r"[^a-z0-9]+", "-", s): every maximal run of characters outside
\* [a-z0-9] becomes one "-".
RECURSIVE SubNonAlnumFrom(_, _)
SubNonAlnumFrom(s, k) ==
  IF k > Len(s) THEN <<>>
  ELSE IF IsAlnum(s[k]) THEN <<s[k]>> \o SubNonAlnumFrom(s, k + 1)
  ELSE IF k > 1 /\ ~IsAlnum(s[k - 1]) THEN SubNonAlnumFrom(s, k + 1)
  ELSE <<"-">> \o SubNonAlnumFrom(s, k + 1)

SubNonAlnum(s) == SubNonAlnumFrom(s, 1)

\* re.sub(r"-{2,}", "-", s): every run of two or more "-" becomes one "-".
RECURSIVE CollapseDashesFrom(_, _)
CollapseDashesFrom(s, k) ==
  IF k > Len(s) THEN <<>>
  ELSE IF s[k] = "-" /\ k > 1 /\ s[k - 1] = "-" THEN CollapseDashesFrom(s, k + 1)
  ELSE <<s[k]>> \o CollapseDashesFrom(s, k + 1)

CollapseDashes(s) == CollapseDashesFrom(s, 1)

\* A default token that is not its own slug.
DefaultTokenCapital == <<"L", "o", "g", "o">>

\* The token slugify returns for an empty slug.
DefaultToken == <<"l", "o", "g", "o">>

\* slugify without the strip("-") of its third line.
slugifyNoDashStrip(text) ==
  LET t1 == Strip(Lower(text), Whitespace)
      t2 == SubNonAlnum(t1)
      t3 == CollapseDashes(t2)
  IN  IF t3 # <<>> THEN t3 ELSE DefaultToken

slugify(text) ==
  LET t1 == Strip(Lower(text), Whitespace)
      t2 == SubNonAlnum(t1)
      t3 == Strip(CollapseDashes(t2), {"-"})
  IN  IF t3 # <<>> THEN t3 ELSE DefaultToken

\* ---------------------------------------------------------------- file name

\* The scripts.
Scripts == {"generate", "generate2"}

\* The slice applied to the slug in the file name: [:60] and [:70].
SlugLimit1 == 60
SlugLimit2 == 70
SlugLimit(scr) == IF scr = "generate" THEN SlugLimit1 ELSE SlugLimit2

RECURSIVE Digits(_)
Digits(n) == IF n < 10 THEN <<DigitChars[n + 1]>>
             ELSE Digits(n \div 10) \o <<DigitChars[(n % 10) + 1]>>

\* format(n, "02d"): sign, then the digits zero-padded so that the whole is
\* at least two characters wide.
Fmt02d(n) ==
  LET d == Digits(IF n < 0 THEN -n ELSE n)
      w == IF n < 0 THEN 1 ELSE 2
      z == IF Len(d) < w THEN Rep("0", w - Len(d)) ELSE <<>>
  IN  (IF n < 0 THEN <<"-">> ELSE <<>>) \o z \o d

PngSuffix == <<".", "p", "n", "g">>

\* The slug part cut one character too late.
SlugPartOffByOne(scr, title) == Take(slugify(title), SlugLimit(scr) + 1)

\* slugify(p['title'])[:60] and slugify(p['title'])[:70]
SlugPart(scr, title) == Take(slugify(title), SlugLimit(scr))

\* A file name that takes its slug from the prompt text instead of the title.
FileNameOfPrompt(scr, p) ==
  Fmt02d(p.id) \o <<"-">> \o SlugPart(scr, p.prompt) \o PngSuffix

\* fname = f"{p['id']:02d}-{slugify(p['title'])[:N]}.png"
FileName(scr, p) ==
  Fmt02d(p.id) \o <<"-">> \o SlugPart(scr, p.title) \o PngSuffix

\* ------------------------------------------------------------ request_image

\* An optional value: <<>> is None (an absent key), <<v>> is the value v.
None == <<>>
Some(v) == <<v>>

\* Python's truth of dict.get(key): the key is there and its string is not
\* empty (b64_json is a sequence of characters, url a string).
TruthyB64(opt) == opt # None /\ opt[1] # <<>>
TruthyUrl(opt) == opt # None /\ opt[1] # ""

API_URL == "https://api.openai.com/v1/images/generations"

B64Alphabet == UpperLetters \o LowerLetters \o DigitChars \o <<"+", "/">>

\* The 6-bit value of each character of the alphabet.
B64ValueOf ==
  [c \in Range(B64Alphabet) |-> (CHOOSE k \in DOMAIN B64Alphabet : B64Alphabet[k] = c) - 1]

B64Value(c) == B64ValueOf[c]

IsB64Char(c) == c \in DOMAIN B64ValueOf

IsPad(c) == c = "="

\* The bytes of a sequence of 6-bit values: three per full group of four, one
\* for a last group of two, two for a last group of three.
RECURSIVE DecodeGroups(_)
DecodeGroups(v) ==
  IF Len(v) < 2 THEN <<>>
  ELSE IF Len(v) = 2 THEN <<v[1] * 4 + v[2] \div 16>>
  ELSE IF Len(v) = 3 THEN <<v[1] * 4 + v[2] \div 16, (v[2] % 16) * 16 + v[3] \div 4>>
  ELSE <<v[1] * 4 + v[2] \div 16, (v[2] % 16) * 16 + v[3] \div 4, (v[3] % 4) * 64 + v[4]>>
       \o DecodeGroups(SubSeq(v, 5, Len(v)))

\* base64.b64decode(s) (validate=False) for a string whose padding, if any, is
\* at its end: characters outside the alphabet are discarded; a lone last
\* data character or a missing padding raises binascii.Error.
b64decode(s) ==
  LET d    == SelectSeq(s, IsB64Char)
      pads == Len(SelectSeq(s, IsPad))
      n    == Len(d) % 4
      v    == [k \in DOMAIN d |-> B64Value(d[k])]
  IN  IF n = 1 \/ (n = 2 /\ pads < 2) \/ (n = 3 /\ pads < 1)
      THEN [kind |-> "raise", exc |-> [type |-> "binascii.Error", msg |-> <<"padding">>]]
      ELSE [kind |-> "return", bytes |-> DecodeGroups(v)]

\* {} as a data element, and the default of payload.get("data", [{}]).
EmptyElement == [b64_json |-> None, url |-> None]

\* payload.get("data", [{}])
DataOf(payload) == IF payload.data = None THEN <<EmptyElement>> ELSE payload.data[1]

\* A call's result: the requests it made (posts, fetched), the payload it
\* read and its outcome.
Raise(payload, fetched, type, msg) ==
  [payload |-> payload, posts |-> <<API_URL>>, fetched |-> fetched,
   outcome |-> [kind |-> "raise", exc |-> [type |-> type, msg |-> msg]]]

\* The primary urlopen raised: HTTPError is wrapped in a RuntimeError that
\* carries the status code and the body, any other URLError is not caught.
PrimaryFailure(vendor) ==
  IF vendor.primary.status = "http_error"
  THEN Raise(None, <<>>, "RuntimeError",
             <<"OpenAI Images API failed", vendor.primary.code, vendor.primary.body>>)
  ELSE Raise(None, <<>>, "URLError", <<>>)

\* return base64.b64decode(b64)
FromInline(payload, b64) ==
  [payload |-> Some(payload), posts |-> <<API_URL>>, fetched |-> <<>>,
   outcome |-> b64decode(b64)]

\* The fetch of the returned url; generate.py wraps its URLError.
FromUrl(scr, vendor, payload, url) ==
  IF vendor.secondary.status = "ok"
  THEN [payload |-> Some(payload), posts |-> <<API_URL>>, fetched |-> <<url>>,
        outcome |-> [kind |-> "return", bytes |-> vendor.secondary.body]]
  ELSE IF scr = "generate"
  THEN Raise(Some(payload), <<url>>, "RuntimeError", <<"Failed to download image">>)
  ELSE Raise(Some(payload), <<url>>, "URLError", <<>>)

\* raise RuntimeError(f"Unexpected response: {json.dumps(payload)[:500]}");
\* the payloads of the model are shorter than the 500 characters kept.
Unexpected(payload) ==
  Raise(Some(payload), <<>>, "RuntimeError", <<"Unexpected response", payload>>)

\* request_image that looks at the url before the inline data.
request_image_url_first(scr, vendor) ==
  IF vendor.primary.status # "ok" THEN PrimaryFailure(vendor)
  ELSE
    LET payload == vendor.primary.payload
        list == DataOf(payload)
    IN  IF list = <<>>
        THEN Raise(Some(payload), <<>>, "IndexError", <<"list index out of range">>)
        ELSE IF TruthyUrl(list[1].url) THEN FromUrl(scr, vendor, payload, list[1].url[1])
        ELSE IF TruthyB64(list[1].b64_json) THEN FromInline(payload, list[1].b64_json[1])
        ELSE Unexpected(payload)

\* request_image(api_key, prompt) against a vendor that answers the POST with
\* vendor.primary and a GET of the returned url with vendor.secondary.
\* data = payload.get("data", [{}])[0] raises IndexError on an empty list.
request_image(scr, vendor) ==
  IF vendor.primary.status # "ok" THEN PrimaryFailure(vendor)
  ELSE
    LET payload == vendor.primary.payload
        list == DataOf(payload)
    IN  IF list = <<>>
        THEN Raise(Some(payload), <<>>, "IndexError", <<"list index out of range">>)
        ELSE
          LET data == list[1]
              b64 == data.b64_json
              url == data.url
          IN  IF TruthyB64(b64) THEN FromInline(payload, b64[1])
              ELSE IF TruthyUrl(url) THEN FromUrl(scr, vendor, payload, url[1])
              ELSE Unexpected(payload)

\* ------------------------------------------------------------ write_gallery

\* One <figure> block of the gallery; generate.py adds the prompt text.
Figure(scr, it) ==
  [href |-> it.file, src |-> it.file, id |-> Fmt02d(it.id), title |-> it.title,
   small |-> IF scr = "generate" THEN Some(it.prompt) ELSE None]

\* The text written to index.html: the figures, one per item, in order.
write_gallery(scr, items) == [k \in DOMAIN items |-> Figure(scr, items[k])]

\* ------------------------------------------------------------------- inputs

TitleBold == <<"B","o","l","d"," ","T"," ","M","a","r","k">>
\* Another title with the slug of TitleBold.
TitleBoldAlt == <<"b","o","l","d","-","t"," ","m","a","r","k","!">>
\* A title without any letter or digit.
TitleSymbols == <<"!","?">>

PromptA == <<"a"," ","l","o","g","o">>
PromptB == <<"a"," ","m","a","r","k">>

\* The (id, title) pairs of the records a prompt file may hold; the first two
\* have the same file name.
RecordKeys ==
  { [id |-> 1, title |-> TitleBold], [id |-> 1, title |-> TitleBoldAlt],
    [id |-> 12, title |-> TitleSymbols] }

Records(text) == {[id |-> r.id, title |-> r.title, prompt |-> text] : r \in RecordKeys}

\* The prompt files: JSON arrays of {id, title, prompt}.
PromptFiles == SeqsUpTo(Records(PromptA), MaxPrompts)

\* The same records with the prompt text rewritten.
Reworded(prompts) ==
  [k \in DOMAIN prompts |->
     [id |-> prompts[k].id, title |-> prompts[k].title, prompt |-> PromptB]]

\* Values of OPENAI_API_KEY: unset, empty, blank, a key with blanks around it.
ApiKeys == {None, Some(<<>>), Some(<<" ", "\t">>), Some(<<" ","s","k","-","1","\n">>)}

\* A directory given in LATEST_OUT_DIR, with a trailing blank.
GivenDir == <<"r","u","n","s","/","a"," ">>
LatestDirs == {None, Some(<<" ">>), Some(GivenDir)}

U1 == "https://x/y.png"
U2 == "https://x/z.png"
B64A == <<"Q","Q","=","=">>
B64Nothing == <<"=","=","=","=">>
B64Bad == <<"Q">>

Element(b64, url) == [b64_json |-> b64, url |-> url]

\* The JSON objects the vendor answers a successful POST with.
Payloads ==
  { [data |-> None],
    [data |-> Some(<<>>)],
    [data |-> Some(<<EmptyElement>>)],
    [data |-> Some(<<Element(Some(B64A), None)>>)],
    [data |-> Some(<<Element(Some(B64Nothing), None)>>)],
    [data |-> Some(<<Element(Some(B64Bad), None)>>)],
    [data |-> Some(<<Element(None, Some(U1))>>)],
    [data |-> Some(<<Element(Some(B64A), Some(U1))>>)],
    [data |-> Some(<<Element(Some(<<>>), Some(U2))>>)],
    [data |-> Some(<<Element(None, Some(""))>>)],
    [data |-> Some(<<EmptyElement, Element(None, Some(U1))>>)] }

NoPayload == [data |-> None]

Primaries ==
  { [status |-> "http_error", code |-> 429, body |-> "rate limited", payload |-> NoPayload],
    [status |-> "url_error", code |-> 0, body |-> "", payload |-> NoPayload] }
  \cup {[status |-> "ok", code |-> 200, body |-> "", payload |-> p] : p \in Payloads}

Secondaries ==
  { [status |-> "ok", body |-> <<>>], [status |-> "ok", body |-> <<65>>],
    [status |-> "url_error", body |-> <<>>] }

\* What the vendor may do during one call of request_image; the answer to the
\* GET varies where the first data element has a url.
Vendors ==
  {[primary |-> p, secondary |-> [status |-> "ok", body |-> <<65>>]] : p \in Primaries}
  \cup {[primary |-> p, secondary |-> g] :
          p \in {q \in Primaries : DataOf(q.payload) # <<>> /\ TruthyUrl(DataOf(q.payload)[1].url)},
          g \in Secondaries}

\* The bodies of the files found in a directory given for a resume.
OldBodies == {<<>>, <<137>>}

\* ------------------------------------------------------------------- state

VARIABLES
  script,        \* the script that runs
  environ,       \* os.environ
  prompts_file,  \* the prompt file's records
  clock,         \* the second of the wall clock
  disk,          \* the image files: <<directory, name>> -> bytes
  docs,          \* generated.json and index.html: <<directory, name>> -> text
  run,           \* "first" or "second" run
  prev,          \* what the first run left, for the second
  pc,            \* where main is
  api_key, prompts, loaded, out_dir, items_out, i,
  made,          \* the directories this run made
  exit_code,     \* main's return value
  exception,     \* the exception that ended main
  call,          \* the last call of request_image of this run
  posts,         \* primary POSTs of this run
  fetches,       \* secondary fetches of this run
  written,       \* write_bytes of this run, in order: [rec, path, body]
  written_docs,  \* write_text of this run, in order: names
  disk0,         \* disk when this run started
  wrote_empty,   \* this run wrote a file of zero bytes
  stage, text, id, slug, reslug, fname   \* slugify and the file name, on their own

runvars == <<pc, api_key, prompts, loaded, out_dir, items_out, i, made, exit_code,
             exception, call, posts, fetches, written, written_docs, disk0, wrote_empty>>
worldvars == <<script, environ, prompts_file, clock, disk, docs, run, prev>>
slugvars == <<stage, text, id, slug, reslug, fname>>
vars == <<worldvars, runvars, slugvars>>

\* os.environ.get(name, "") without the strip().
GetEnvNoStrip(name) == IF environ[name] = None THEN <<>> ELSE environ[name][1]

\* os.environ.get(name, "").strip()
GetEnv(name) ==
  Strip(IF environ[name] = None THEN <<>> ELSE environ[name][1], Whitespace)

\* dt.datetime.now().strftime("%Y-%m-%d-%H-%M-%S") at second c of the minute
\* the runs happen in: the date, hour and minute, written "t-", and the second.
Strftime(c) == <<"t", "-">> \o Fmt02d(c)

\* Path("out") / ts
OutPath(ts) == <<"o","u","t","/">> \o ts

\* f with the value v at x.
Put(f, x, v) == [y \in DOMAIN f \cup {x} |-> IF y = x THEN v ELSE f[y]]

NoFiles == [x \in {} |-> <<>>]

\* out_path.exists() and out_path.stat().st_size > 0
ExistsNonEmpty(d, path) == path \in DOMAIN d /\ Len(d[path]) > 0

\* A skip test that takes any existing file.
ShouldSkipExists(scr, d, path) == scr = "generate2" /\ path \in DOMAIN d

\* generate2.py skips the request for an existing file that is not empty;
\* generate.py has no such test.
ShouldSkip(scr, d, path) == scr = "generate2" /\ ExistsNonEmpty(d, path)

Item(p, name) == [id |-> p.id, title |-> p.title, prompt |-> p.prompt, file |-> name]

\* The run's own variables before main starts.
RunInit ==
  /\ pc = "start" /\ api_key = <<>> /\ prompts = <<>> /\ loaded = FALSE
  /\ out_dir = <<>> /\ items_out = <<>> /\ i = 0 /\ made = <<>>
  /\ exit_code = None /\ exception = None /\ call = None
  /\ posts = 0 /\ fetches = 0 /\ written = <<>> /\ written_docs = <<>>
  /\ wrote_empty = FALSE

SlugIdle ==
  /\ stage = "idle" /\ text = <<>> /\ id = 0 /\ slug = <<>> /\ reslug = <<>>
  /\ fname = <<>>

\* The paths a resumed run of generate2.py will look at.
TargetPaths(dir, file) == {<<dir, FileName("generate2", file[k])>> : k \in DOMAIN file}

Init ==
  /\ script \in Scripts
  /\ prompts_file \in PromptFiles
  /\ \E key \in ApiKeys, latest \in LatestDirs :
       /\ script = "generate" => latest # Some(<<" ">>)
       /\ environ = [OPENAI_API_KEY |-> key, LATEST_OUT_DIR |-> latest]
  /\ clock = 0
  /\ IF script = "generate2" /\ environ.LATEST_OUT_DIR = Some(GivenDir)
     THEN \E S \in SUBSET TargetPaths(Strip(GivenDir, Whitespace), prompts_file) :
            disk \in [S -> OldBodies]
     ELSE disk = NoFiles
  /\ docs = NoFiles
  /\ run = "first"
  /\ prev = [items |-> <<>>, out_dir |-> <<>>, completed |-> FALSE, wrote_empty |-> FALSE]
  /\ disk0 = disk
  /\ RunInit
  /\ SlugIdle

\* --------------------------------------------------------------------- main

\* main without a credential: prints the diagnostic and returns 2.
MainMissingKey ==
  /\ pc = "start"
  /\ GetEnv("OPENAI_API_KEY") = <<>>
  /\ exit_code' = Some(2)
  /\ pc' = "returned"
  /\ UNCHANGED <<api_key, prompts, loaded, out_dir, items_out, i, made, exception, call,
                 posts, fetches, written, written_docs, disk0, wrote_empty>>
  /\ UNCHANGED <<worldvars, slugvars>>

\* A directory that is always out/<timestamp>.
OutDirOfClock(scr) == OutPath(Strftime(clock))

\* The directory main writes into: generate2.py takes LATEST_OUT_DIR when it
\* is set and not blank, both scripts else take out/<timestamp>.
OutDir(scr) ==
  IF scr = "generate2" /\ GetEnv("LATEST_OUT_DIR") # <<>>
  THEN GetEnv("LATEST_OUT_DIR")
  ELSE OutPath(Strftime(clock))

\* main up to its loop: the credential, the prompt file, the directory.
MainSetup ==
  /\ pc = "start"
  /\ GetEnv("OPENAI_API_KEY") # <<>>
  /\ api_key' = GetEnv("OPENAI_API_KEY")
  /\ prompts' = prompts_file
  /\ loaded' = TRUE
  /\ out_dir' = OutDir(script)
  /\ made' = Append(made, OutDir(script))
  /\ items_out' = <<>>
  /\ i' = 1
  /\ pc' = "loop"
  /\ UNCHANGED <<exit_code, exception, call, posts, fetches, written, written_docs,
                 disk0, wrote_empty>>
  /\ UNCHANGED <<worldvars, slugvars>>

\* The path of the record the loop is at.
OutPathOf(k) == <<out_dir, FileName(script, prompts[k])>>

\* One turn of the loop of generate2.py for a record whose file is there.
LoopSkip ==
  /\ pc = "loop"
  /\ i <= Len(prompts)
  /\ ShouldSkip(script, disk, OutPathOf(i))
  /\ items_out' = Append(items_out, Item(prompts[i], FileName(script, prompts[i])))
  /\ i' = i + 1
  /\ UNCHANGED <<pc, api_key, prompts, loaded, out_dir, made, exit_code, exception, call,
                 posts, fetches, written, written_docs, disk0, wrote_empty>>
  /\ UNCHANGED <<worldvars, slugvars>>

\* One turn of the loop in which request_image returns bytes: they are written
\* and the record is added to items_out.
LoopGenerate ==
  /\ pc = "loop"
  /\ i <= Len(prompts)
  /\ ~ShouldSkip(script, disk, OutPathOf(i))
  /\ LET out_path == OutPathOf(i) IN
     \E vendor \in Vendors :
       LET r == request_image(script, vendor) IN
       /\ r.outcome.kind = "return"
       /\ call' = Some(r)
       /\ posts' = posts + Len(r.posts)
       /\ fetches' = fetches + Len(r.fetched)
       /\ disk' = Put(disk, out_path, r.outcome.bytes)
       /\ written' = Append(written, [rec |-> i, path |-> out_path, body |-> r.outcome.bytes])
       /\ wrote_empty' = (wrote_empty \/ r.outcome.bytes = <<>>)
  /\ items_out' = Append(items_out, Item(prompts[i], FileName(script, prompts[i])))
  /\ i' = i + 1
  /\ UNCHANGED <<pc, api_key, prompts, loaded, out_dir, made, exit_code, exception,
                 written_docs, disk0>>
  /\ UNCHANGED <<script, environ, prompts_file, clock, docs, run, prev>>
  /\ UNCHANGED slugvars

\* A turn of the loop that opens the record's file before the request and
\* leaves it empty when request_image raises.
LoopAbortLeavesFile ==
  /\ pc = "loop"
  /\ i <= Len(prompts)
  /\ ~ShouldSkip(script, disk, OutPathOf(i))
  /\ \E vendor \in Vendors :
       LET r == request_image(script, vendor) IN
       /\ r.outcome.kind = "raise"
       /\ call' = Some(r)
       /\ exception' = Some(r.outcome.exc)
       /\ posts' = posts + Len(r.posts)
       /\ fetches' = fetches + Len(r.fetched)
  /\ disk' = Put(disk, OutPathOf(i), <<>>)
  /\ written' = Append(written, [rec |-> i, path |-> OutPathOf(i), body |-> <<>>])
  /\ pc' = "aborted"
  /\ UNCHANGED <<api_key, prompts, loaded, out_dir, items_out, i, made, exit_code,
                 written_docs, disk0, wrote_empty>>
  /\ UNCHANGED <<script, environ, prompts_file, clock, docs, run, prev>>
  /\ UNCHANGED slugvars

\* One turn of the loop in which request_image raises: nothing catches the
\* exception, main ends with it.
LoopAbort ==
  /\ pc = "loop"
  /\ i <= Len(prompts)
  /\ ~ShouldSkip(script, disk, OutPathOf(i))
  /\ \E vendor \in Vendors :
       LET r == request_image(script, vendor) IN
       /\ r.outcome.kind = "raise"
       /\ call' = Some(r)
       /\ exception' = Some(r.outcome.exc)
       /\ posts' = posts + Len(r.posts)
       /\ fetches' = fetches + Len(r.fetched)
  /\ pc' = "aborted"
  /\ UNCHANGED <<api_key, prompts, loaded, out_dir, items_out, i, made, exit_code,
                 written, written_docs, disk0, wrote_empty>>
  /\ UNCHANGED <<worldvars, slugvars>>

\* After the loop: generated.json (the items, pretty-printed), index.html,
\* return 0.
MainFinish ==
  /\ pc = "loop"
  /\ i > Len(prompts)
  /\ docs' = Put(Put(docs, <<out_dir, "generated.json">>, items_out),
                 <<out_dir, "index.html">>, write_gallery(script, items_out))
  /\ written_docs' = written_docs \o <<"generated.json", "index.html">>
  /\ exit_code' = Some(0)
  /\ pc' = "done"
  /\ UNCHANGED <<api_key, prompts, loaded, out_dir, items_out, i, made, exception, call,
                 posts, fetches, written, disk0, wrote_empty>>
  /\ UNCHANGED <<script, environ, prompts_file, clock, disk, run, prev>>
  /\ UNCHANGED slugvars

\* The operator runs the script again after a run that returned 0: with the
\* prompt texts reworded, in the same second or a later one, and with
\* LATEST_OUT_DIR unset or set to the first run's directory.
Rerun ==
  /\ run = "first"
  /\ pc = "done"
  /\ run' = "second"
  /\ prev' = [items |-> items_out, out_dir |-> out_dir, completed |-> (pc = "done"),
              wrote_empty |-> wrote_empty]
  /\ prompts_file' = Reworded(prompts_file)
  /\ \E latest \in {None, Some(out_dir)} :
       environ' = [environ EXCEPT !.LATEST_OUT_DIR = latest]
  /\ clock' \in {clock, clock + 1}
  /\ disk0' = disk
  /\ pc' = "start" /\ api_key' = <<>> /\ prompts' = <<>> /\ loaded' = FALSE
  /\ out_dir' = <<>> /\ items_out' = <<>> /\ i' = 0 /\ made' = <<>>
  /\ exit_code' = None /\ exception' = None /\ call' = None
  /\ posts' = 0 /\ fetches' = 0 /\ written' = <<>> /\ written_docs' = <<>>
  /\ wrote_empty' = FALSE
  /\ UNCHANGED <<script, disk, docs>>
  /\ UNCHANGED slugvars

Next ==
  \/ MainMissingKey
  \/ MainSetup
  \/ LoopSkip
  \/ LoopGenerate
  \/ LoopAbort
  \/ MainFinish
  \/ Rerun

Spec == Init /\ [][Next]_vars

\* ------------------------------------------- slugify and FileName on their own

\* The characters of the titles: a lower-case and an upper-case letter, a
\* digit, a blank, the separator itself and another symbol.
TitleChars == {"a", "B", "1", " ", "-", "!"}

\* The lengths of the run of letters a title starts with: none, or up to
\* MaxBack short of a script's slug limit.
PadLens ==
  {0} \cup {SlugLimit1 - j : j \in 0..MaxBack} \cup {SlugLimit2 - j : j \in 0..MaxBack}

\* The titles: a run of letters followed by any tail of at most MaxTail
\* characters.
TitleInputs == {Rep("a", n) \o t : n \in PadLens, t \in SeqsUpTo(TitleChars, MaxTail)}

\* The ids a file name is made for.
SlugIds == {0, 7, 123, -5}

SlugInit ==
  /\ script \in Scripts
  /\ environ = [OPENAI_API_KEY |-> None, LATEST_OUT_DIR |-> None]
  /\ prompts_file = <<>>
  /\ clock = 0
  /\ disk = NoFiles /\ docs = NoFiles /\ disk0 = NoFiles
  /\ run = "first"
  /\ prev = [items |-> <<>>, out_dir |-> <<>>, completed |-> FALSE, wrote_empty |-> FALSE]
  /\ RunInit
  /\ stage = "input"
  /\ text \in TitleInputs
  /\ id = 0 /\ slug = <<>> /\ reslug = <<>> /\ fname = <<>>

\* slug = slugify(text)
Slugify ==
  /\ stage = "input"
  /\ slug' = slugify(text)
  /\ stage' = "slugged"
  /\ UNCHANGED <<text, id, reslug, fname, worldvars, runvars>>

\* slugify applied to its own result.
SlugifyAgain ==
  /\ stage = "slugged"
  /\ reslug' = slugify(slug)
  /\ stage' = "reslugged"
  /\ UNCHANGED <<text, id, slug, fname, worldvars, runvars>>

\* The file name the script gives a record with this title.
NameFile ==
  /\ stage = "slugged"
  /\ \E n \in SlugIds :
       /\ id' = n
       /\ fname' = FileName(script, [id |-> n, title |-> text, prompt |-> PromptA])
  /\ stage' = "named"
  /\ UNCHANGED <<text, slug, reslug, worldvars, runvars>>

SlugNext == Slugify \/ SlugifyAgain \/ NameFile

SlugSpec == SlugInit /\ [][SlugNext]_vars

\* ----------------------------------------------------------- slug properties

\* The format of a slug: not empty, over [a-z0-9-], no "-" at either end and
\* no two "-" side by side.
NoLeadingDash(s) == s # <<>> => s[1] # "-"
NoTrailingDash(s) == s # <<>> => s[Len(s)] # "-"
NoDoubleDash(s) == \A k \in 1..(Len(s) - 1) : ~(s[k] = "-" /\ s[k + 1] = "-")
OverSlugChars(s) == \A k \in DOMAIN s : s[k] \in AlnumChars \cup {"-"}
SlugFormat(s) ==
  /\ s # <<>>
  /\ OverSlugChars(s)
  /\ NoLeadingDash(s) /\ NoTrailingDash(s) /\ NoDoubleDash(s)

\* No character of the lower-cased string is in [a-z0-9].
NoAlnumIn(s) == \A k \in DOMAIN s : ~IsAlnum(LowerChar(s[k]))

\* The part of a file name between "<id>-" and ".png".
SlugOfName(name, n) == SubSeq(name, Len(Fmt02d(n)) + 2, Len(name) - Len(PngSuffix))

\* s ends with t.
EndsWith(s, t) == Len(s) >= Len(t) /\ SubSeq(s, Len(s) - Len(t) + 1, Len(s)) = t

\* C6: slugify is idempotent: slugify applied to the slug of any title returns
\* that slug, also when the slug is the default token "logo".
C6_SlugifyIdempotent == stage = "reslugged" => reslug = slug

\* C6 witness: a title of symbols only went through slugify twice and is the
\* default token.
C6_Witness ==
  /\ stage = "reslugged"
  /\ text = <<"!", " ", "-">>
  /\ slug = DefaultToken

\* C7: slugify returns for every title a non-empty string over [a-z0-9-] with
\* no "-" at either end and no two adjacent "-"; a title without a character of
\* [a-z0-9] after lower-casing, the empty title included, gives "logo".
C7_SlugifyFormat ==
  stage # "input" =>
    /\ SlugFormat(slug)
    /\ NoAlnumIn(text) => slug = <<"l", "o", "g", "o">>

\* C7 witness: a title with two separators side by side before an upper-case
\* letter got a slug with one "-" and the letter in lower case.
C7_Witness ==
  /\ stage = "slugged"
  /\ text = Rep("a", 58) \o <<"-", " ", "B">>
  /\ slug = Rep("a", 58) \o <<"-", "b">>

\* C10 as stated: the slug part of every file name (the slug cut to the
\* script's limit) keeps the slug format, so the name has no "-.png".
C10_CutSlugKeepsFormat ==
  stage = "named" =>
    /\ SlugFormat(SlugOfName(fname, id))
    /\ ~EndsWith(fname, <<"-">> \o PngSuffix)

\* C10 amended: the slug part of every file name is not empty, at most the
\* script's limit long, over [a-z0-9-], without a leading "-" and without two
\* adjacent "-"; it ends with "-" (the name then ends with "-.png") only when
\* the slug is longer than the limit and has a "-" at the limit.
C10_CutSlugFormat ==
  stage = "named" =>
    LET part == SlugOfName(fname, id)
        limit == IF script = "generate" THEN 60 ELSE 70
    IN  /\ part # <<>>
        /\ Len(part) <= limit
        /\ OverSlugChars(part) /\ NoLeadingDash(part) /\ NoDoubleDash(part)
        /\ part[Len(part)] = "-" <=> (Len(slug) > limit /\ slug[limit] = "-")
        /\ EndsWith(fname, <<"-">> \o PngSuffix) <=> part[Len(part)] = "-"
        /\ Len(slug) <= limit => SlugFormat(part)

\* C10 witness: a title whose slug has its "-" at position 60 was named by
\* generate.py, and the name ends with "-.png".
C10_Witness ==
  /\ stage = "named"
  /\ script = "generate"
  /\ text = Rep("a", 59) \o <<" ", "B">>
  /\ EndsWith(fname, <<"-">> \o PngSuffix)

\* ------------------------------------------------------------ run properties

\* The file name of the k-th record of the prompt file, for this script.
NameOf(k) == FileName(script, prompts_file[k])

\* The records whose target path held a file of more than zero bytes when the
\* run started.
Preexisting == {k \in DOMAIN prompts : ExistsNonEmpty(disk0, <<out_dir, NameOf(k)>>)}

\* No two records of the prompt file have the same file name.
DistinctNames ==
  \A j, k \in DOMAIN prompts_file : j # k => NameOf(j) # NameOf(k)

\* The manifest this run wrote.
Manifest == docs[<<out_dir, "generated.json">>]

\* generated.json has one entry per record, with the ids in the order of the
\* prompt list.
ManifestInOrder ==
  /\ Len(Manifest) = Len(prompts_file)
  /\ \A k \in DOMAIN prompts_file : Manifest[k].id = prompts_file[k].id

\* C1 as stated: a run of generate2.py that ends with every request answered
\* made N - K primary requests, K the records whose target file was there and
\* not empty, and wrote a manifest of N entries in the order of the prompts.
C1_RequestsAreNMinusK ==
  (script = "generate2" /\ pc = "done") =>
    /\ posts = Len(prompts_file) - Cardinality(Preexisting)
    /\ ManifestInOrder

\* C1 amended: the same, for a prompt list whose records have pairwise
\* distinct target file names.
C1_RequestsAreNMinusKDistinct ==
  (script = "generate2" /\ pc = "done" /\ DistinctNames) =>
    /\ posts = Len(prompts_file) - Cardinality(Preexisting)
    /\ ManifestInOrder

\* C1 witness: a run of generate2.py over two records, one of them with its
\* file in the given directory, ended after one request.
C1_Witness ==
  /\ script = "generate2" /\ pc = "done" /\ run = "first"
  /\ Len(prompts_file) = 2 /\ DistinctNames
  /\ Cardinality(Preexisting) = 1
  /\ posts = 1
  /\ Len(Manifest) = 2

\* The body of the last write of this run to a path.
LastWritten(path) ==
  LET ks == {k \in DOMAIN written : written[k].path = path}
  IN  written[CHOOSE k \in ks : \A j \in ks : j <= k].body

\* What holds when request_image raised for record i.
AbortedAt ==
  /\ exception # None /\ exit_code = None
  /\ i \in DOMAIN prompts
  /\ Len(items_out) = i - 1
  /\ posts = Len(written) + 1
  /\ \A k \in DOMAIN written : written[k].rec < i
  /\ written_docs = <<>>
  /\ run = "first" => docs = NoFiles
  /\ \A k \in DOMAIN written : disk[written[k].path] = LastWritten(written[k].path)
  /\ \A path \in DOMAIN disk0 :
       (\A k \in DOMAIN written : written[k].path # path) =>
         path \in DOMAIN disk /\ disk[path] = disk0[path]

\* C2: when the image request for record i fails, in either script, the run
\* ends there: the failed request is its last, every file it wrote is of a
\* record before i and is on disk as written, generated.json and index.html
\* are not written, and the run takes no further step.
C2_FailureAbortsRun ==
  /\ [](pc = "aborted" => AbortedAt)
  /\ [][pc # "aborted"]_vars

\* C2 witness: generate.py failed at its second record with a download error
\* after it wrote the file of the first.
C2_Witness ==
  /\ script = "generate" /\ pc = "aborted"
  /\ i = 2 /\ Len(written) = 1 /\ posts = 2 /\ fetches = 1
  /\ exception = Some([type |-> "RuntimeError", msg |-> <<"Failed to download image">>])

\* OPENAI_API_KEY is unset or holds nothing but blanks.
KeyBlank ==
  \/ environ.OPENAI_API_KEY = None
  \/ \A k \in DOMAIN environ.OPENAI_API_KEY[1] : environ.OPENAI_API_KEY[1][k] \in Whitespace

\* The run has done nothing: no prompt file read, no directory made, no
\* request, no file written.
Untouched ==
  /\ ~loaded /\ made = <<>>
  /\ posts = 0 /\ fetches = 0 /\ call = None
  /\ written = <<>> /\ written_docs = <<>>
  /\ disk = disk0
  /\ run = "first" => docs = NoFiles

\* C3: in either script a run without a credential (unset, empty or blank)
\* returns 2 and has done nothing else; a run returns 2 only then, and a run
\* that went through all its records returns 0.
C3_ExitCodes ==
  /\ (pc # "start" /\ KeyBlank) => (pc = "returned" /\ exit_code = Some(2) /\ Untouched)
  /\ exit_code = Some(2) => KeyBlank
  /\ pc = "done" => (exit_code = Some(0) /\ Len(items_out) = Len(prompts_file))
  /\ exit_code = Some(0) => pc = "done"

\* C3 witness: generate2.py returned 2 for a credential of blanks.
C3_Witness ==
  /\ script = "generate2" /\ pc = "returned"
  /\ environ.OPENAI_API_KEY = Some(<<" ", "\t">>)
  /\ exit_code = Some(2)

\* The first element of the payload's data, if there is one.
HasFirst(payload) == payload.data # None /\ payload.data[1] # <<>>
First(payload) == payload.data[1][1]

\* C4: a call of request_image makes one POST; when the POST succeeded and
\* the first data element has inline data, it fetches nothing, also when the
\* element has a url; when the element has a url and no inline data, it makes
\* one fetch, of that url.
C4_OnePostAndFetchOnlyWithoutInline ==
  call # None =>
    LET c == call[1] IN
    /\ c.posts = <<API_URL>>
    /\ (c.payload # None /\ HasFirst(c.payload[1])) =>
         LET e == First(c.payload[1]) IN
         /\ TruthyB64(e.b64_json) => c.fetched = <<>>
         /\ (~TruthyB64(e.b64_json) /\ TruthyUrl(e.url)) => c.fetched = <<e.url[1]>>

\* C4 witness: the vendor answered with inline data and a url, and the call
\* returned the decoded bytes without a fetch.
C4_Witness ==
  /\ call # None
  /\ call[1].payload = Some([data |-> Some(<<Element(Some(B64A), Some(U1))>>)])
  /\ call[1].fetched = <<>>
  /\ call[1].outcome = [kind |-> "return", bytes |-> <<65>>]

\* The payload has neither inline data nor a url: no data, an empty list, or
\* a first element without either.
Neither(payload) ==
  \/ payload.data = None
  \/ payload.data[1] = <<>>
  \/ ~TruthyB64(First(payload).b64_json) /\ ~TruthyUrl(First(payload).url)

\* C5: when the vendor's answer has neither inline data nor a url, an empty
\* data list included, request_image raises the "Unexpected response" error
\* without a fetch, and the loop writes no file for the record.
C5_NeitherIsUnexpectedResponse ==
  (call # None /\ call[1].payload # None /\ Neither(call[1].payload[1])) =>
    /\ call[1].outcome.kind = "raise"
    /\ call[1].outcome.exc.type = "RuntimeError"
    /\ call[1].outcome.exc.msg[1] = "Unexpected response"
    /\ call[1].fetched = <<>>
    /\ pc = "aborted"
    /\ \A k \in DOMAIN written : written[k].rec # i

\* The entries of the manifests of this run and of the run before it.
Entries == Range(items_out) \cup Range(prev.items)

BoldName == <<"0","1","-","b","o","l","d","-","t","-","m","a","r","k",".","p","n","g">>
LogoName == <<"1","2","-","l","o","g","o",".","p","n","g">>

\* C8: the file of a manifest entry is a function of its id and title: any
\* two entries with the same id and title, of one run or of two runs of the
\* script, have the same file, whatever their prompt texts, the vendor's
\* answers, the time, the directory and whether the file was skipped; the
\* file of id 1, "Bold T Mark" is 01-bold-t-mark.png.
C8_FileIsFunctionOfIdAndTitle ==
  /\ \A a, b \in Entries : (a.id = b.id /\ a.title = b.title) => a.file = b.file
  /\ \A k \in DOMAIN items_out :
       /\ k \in DOMAIN prev.items => items_out[k].file = prev.items[k].file
       /\ (items_out[k].id = 1 /\ items_out[k].title = TitleBold) => items_out[k].file = BoldName
       /\ (items_out[k].id = 12 /\ items_out[k].title = TitleSymbols) => items_out[k].file = LogoName

\* C8 witness: a second run of generate2.py into another directory, with the
\* prompt texts reworded, ended with the manifest of two entries that the
\* first run wrote; the first run skipped a record that the second requested.
C8_Witness ==
  /\ script = "generate2" /\ run = "second" /\ pc = "done"
  /\ Len(items_out) = 2 /\ Len(prev.items) = 2
  /\ out_dir # prev.out_dir
  /\ items_out[1].prompt # prev.items[1].prompt
  /\ items_out[1].file = BoldName
  /\ posts = 2
  /\ disk0 # NoFiles /\ (\E path \in DOMAIN disk0 : disk0[path] = <<137>>)

\* The second run is a run of generate2.py with LATEST_OUT_DIR set to the
\* directory of a first run that ended with return 0.
ResumedAfterSuccess ==
  /\ script = "generate2" /\ run = "second" /\ pc # "start"
  /\ prev.completed
  /\ environ.LATEST_OUT_DIR = Some(prev.out_dir)

\* C9 as stated: a run of generate2.py into the directory of a run that
\* ended well makes no image request, whatever the vendor answered before.
C9_ResumeMakesNoRequest == ResumedAfterSuccess => posts = 0

\* C9 amended: it makes no image request provided no file the first run
\* wrote was zero bytes long, and then it ends with return 0.
C9_ResumeMakesNoRequestUnlessEmpty ==
  (ResumedAfterSuccess /\ ~prev.wrote_empty) =>
    /\ posts = 0 /\ call = None /\ written = <<>>
    /\ pc \in {"loop", "done"}
    /\ disk = disk0

\* C9 witness: the second run over two records, whose files the first run
\* wrote, ended without a request.
C9_Witness ==
  /\ ResumedAfterSuccess /\ ~prev.wrote_empty
  /\ pc = "done" /\ posts = 0
  /\ Len(items_out) = 2
  /\ \A k \in DOMAIN items_out : <<out_dir, items_out[k].file>> \in DOMAIN disk
  /\ \E path \in DOMAIN disk : disk[path] = <<65>>

====
